---------------------------- MODULE Spec2Model ----------------------------
(***************************************************************************)
(* A model of cyclops (src/cyclops.c): the calendar functions, the date    *)
(* parser, and the run of main() that walks a date range and creates       *)
(* back-dated commits through the external git tool.                       *)
(*                                                                         *)
(* Text (argv strings, the formatted dates the program prints) is a        *)
(* sequence of one-character strings, so that sscanf, atoi and the         *)
(* "%04d-%02d-%02d" formatting are modelled by what they do.               *)
(*                                                                         *)
(* Every system() call and every fopen is a step whose outcome (success or *)
(* failure) is chosen freely.  rand() is a free choice too; the draws that *)
(* only fill in text (commit message, session minutes, changed lines, hour *)
(* and minute) decide no branch and are left out of the state.  The        *)
(* activity file is taken to be empty when the run starts.                 *)
(***************************************************************************)
EXTENDS Integers, Sequences, FiniteSets, TLC

VARIABLES
    \* ---- the run of main() ----
    pc,                   \* position of main(): "args", "init_repo", "loop",
                          \*   "record", "add", "commit", "end_day", "summary", "done"
    argc,                 \* main's argc
    argv,                 \* argv[1..argc-1], each a text
    git_dir,              \* whether the .git directory exists (stat(".git") succeeds)
    start_date,           \* main's start_date
    end_date,             \* main's end_date
    current_date,         \* main's current_date
    max_commits_per_day,  \* main's max_commits_per_day
    total_commits,        \* main's total_commits
    days_processed,       \* main's days_processed
    commits_today,        \* main's commits_today
    i,                    \* main's loop variable i (create_commit's commit_number)
    file,                 \* the records appended to cyclops_activity.txt by this run
    trace,                \* history: every collaborator call and record append, in order
    visited,              \* history: <<current_date, commits_today>> of every loop iteration
    summary,              \* what the summary printed (NoSummary before that)
    exit_status,          \* main's return value (-1 until it returns)
    \* ---- the pure functions applied on their own ----
    input,                \* the argument of the function under study
    output,               \* its result
    steps                 \* how many times it has been applied

mainVars == <<pc, argc, argv, git_dir, start_date, end_date, current_date,
              max_commits_per_day, total_commits, days_processed, commits_today,
              i, file, trace, visited, summary, exit_status>>
fnVars == <<input, output, steps>>
vars == <<pc, argc, argv, git_dir, start_date, end_date, current_date,
          max_commits_per_day, total_commits, days_processed, commits_today,
          i, file, trace, visited, summary, exit_status, input, output, steps>>

(***************************************************************************)
(* Program constants.                                                      *)
(***************************************************************************)
YearMin == 1900
YearMax == 2100
MonthMax == 12
DayMax == 31
MaxCommitsLimit == 50

(***************************************************************************)
(* Bounds of the model.                                                    *)
(***************************************************************************)
\* The longest date range (in loop iterations) a modelled run walks.
MaxDays == 3
\* rand() is drawn from 0..MaxRand.
MaxRand == 2
\* How many times increment_date is applied from a January 1st.
MaxSteps == 366

(***************************************************************************)
(* Values.                                                                 *)
(***************************************************************************)
\* A Date struct whose fields were never (or only partly) assigned.
NoDate == [year |-> 0, month |-> 0, day |-> 0]
NoSummary == [printed |-> FALSE, days_processed |-> 0, total_commits |-> 0,
              average_printed |-> FALSE, divisor |-> 0]

MkDate(y, m, d) == [year |-> y, month |-> m, day |-> d]

(***************************************************************************)
(* Calendar.                                                               *)
(***************************************************************************)
is_leap_year_div4(year) == year % 4 = 0

is_leap_year(year) ==
    (year % 4 = 0 /\ year % 100 # 0) \/ (year % 400 = 0)

days_in_month(month, year) ==
    LET days == <<31, 28, 31, 30, 31, 30, 31, 31, 30, 31, 30, 31>>
    IN  IF month = 2 /\ is_leap_year(year) THEN 29 ELSE days[month]

\* A plausible slip: the month rolls over but the year never does.
increment_date_no_year(date) ==
    LET d1 == date.day + 1
    IN  IF d1 > days_in_month(date.month, date.year)
        THEN IF date.month + 1 > 12
             THEN MkDate(date.year, 1, 1)
             ELSE MkDate(date.year, date.month + 1, 1)
        ELSE MkDate(date.year, date.month, d1)

increment_date(date) ==
    LET d1 == date.day + 1
    IN  IF d1 > days_in_month(date.month, date.year)
        THEN IF date.month + 1 > 12
             THEN MkDate(date.year + 1, 1, 1)
             ELSE MkDate(date.year, date.month + 1, 1)
        ELSE MkDate(date.year, date.month, d1)

compare_dates(date1, date2) ==
    IF date1.year # date2.year
    THEN (IF date1.year < date2.year THEN -1 ELSE 1)
    ELSE IF date1.month # date2.month
    THEN (IF date1.month < date2.month THEN -1 ELSE 1)
    ELSE IF date1.day # date2.day
    THEN (IF date1.day < date2.day THEN -1 ELSE 1)
    ELSE 0

(***************************************************************************)
(* Text: scanning (sscanf "%d", atoi) and formatting ("%04d", "%02d").     *)
(***************************************************************************)
DigitChars == <<"0", "1", "2", "3", "4", "5", "6", "7", "8", "9">>
IsDigit(c) == \E k \in 1..10 : DigitChars[k] = c
DigitVal(c) == (CHOOSE k \in 1..10 : DigitChars[k] = c) - 1
IsSpace(c) == c \in {" ", "\t", "\n"}

\* The first position at or after p that holds no white space.
RECURSIVE SkipSpace(_, _)
SkipSpace(s, p) ==
    IF p <= Len(s) /\ IsSpace(s[p]) THEN SkipSpace(s, p + 1) ELSE p

\* The first position at or after p that holds no digit.
RECURSIVE DigitsEnd(_, _)
DigitsEnd(s, p) ==
    IF p <= Len(s) /\ IsDigit(s[p]) THEN DigitsEnd(s, p + 1) ELSE p

\* The value of the digits s[p..q].
RECURSIVE DigitsValue(_, _, _)
DigitsValue(s, p, q) ==
    IF q < p THEN 0 ELSE DigitsValue(s, p, q - 1) * 10 + DigitVal(s[q])

\* One "%d" conversion at position p, step by step: q is where the white
\* space ends, r where the optional sign ends, e where the digits end; at
\* least one digit is needed.  (The inputs of the model keep every field
\* within int, where the conversion is defined.)
ScanValue(s, p, q, r, e) ==
    IF e = r
    THEN [ok |-> FALSE, val |-> 0, next |-> p]
    ELSE [ok |-> TRUE,
          val |-> IF r > q /\ s[q] = "-" THEN 0 - DigitsValue(s, r, e - 1)
                                         ELSE DigitsValue(s, r, e - 1),
          next |-> e]

ScanDigits(s, p, q, r) == ScanValue(s, p, q, r, DigitsEnd(s, r))

ScanSign(s, p, q) ==
    ScanDigits(s, p, q, IF q <= Len(s) /\ s[q] \in {"+", "-"} THEN q + 1 ELSE q)

ScanInt(s, p) == ScanSign(s, p, SkipSpace(s, p))

\* Whether the literal "-" of the format matches at position p.
MatchDash(s, p) == p <= Len(s) /\ s[p] = "-"

\* sscanf(date_str, "%d-%d-%d", ...): the number of fields converted and
\* their values (a field not converted is left as it was: 0 here).
ScanDay(f1, f2, f3) ==
    [count |-> IF f3.ok THEN 3 ELSE 2, year |-> f1.val, month |-> f2.val, day |-> f3.val]

ScanMonth(s, f1, f2) ==
    IF f2.ok /\ MatchDash(s, f2.next)
    THEN ScanDay(f1, f2, ScanInt(s, f2.next + 1))
    ELSE [count |-> IF f2.ok THEN 2 ELSE 1, year |-> f1.val, month |-> f2.val, day |-> 0]

ScanYear(s, f1) ==
    IF f1.ok /\ MatchDash(s, f1.next)
    THEN ScanMonth(s, f1, ScanInt(s, f1.next + 1))
    ELSE [count |-> IF f1.ok THEN 1 ELSE 0, year |-> f1.val, month |-> 0, day |-> 0]

sscanf_date(s) == ScanYear(s, ScanInt(s, 1))

\* parse_date's "basic validation" of the three fields.
fields_in_range(date) ==
    ~ (date.year < YearMin \/ date.year > YearMax \/
       date.month < 1 \/ date.month > MonthMax \/
       date.day < 1 \/ date.day > DayMax)

\* parse_date after its sscanf: [ret |-> 1, date |-> the Date] on success,
\* ret 0 on failure (the Date is then not read by the caller).
check_parsed(sc) ==
    IF sc.count # 3 THEN [ret |-> 0, date |-> NoDate]
    ELSE IF ~fields_in_range(MkDate(sc.year, sc.month, sc.day))
    THEN [ret |-> 0, date |-> NoDate]
    ELSE [ret |-> 1, date |-> MkDate(sc.year, sc.month, sc.day)]

parse_date(date_str) == check_parsed(sscanf_date(date_str))

\* atoi: the leading integer of the text, 0 when there is none.
atoi(s) == ScanInt(s, 1).val

\* "%d" of a non-negative number.
RECURSIVE Dec(_)
Dec(n) ==
    IF n < 10 THEN <<DigitChars[n + 1]>>
    ELSE Dec(n \div 10) \o <<DigitChars[(n % 10) + 1]>>

\* "%0wd" of a non-negative number.
RECURSIVE ZeroPad(_, _)
ZeroPad(s, w) == IF Len(s) >= w THEN s ELSE ZeroPad(<<"0">> \o s, w)

\* "%04d-%02d-%02d" of a date.
format_date(date) ==
    ZeroPad(Dec(date.year), 4) \o <<"-">> \o ZeroPad(Dec(date.month), 2)
        \o <<"-">> \o ZeroPad(Dec(date.day), 2)

(***************************************************************************)
(* The run of main().                                                      *)
(***************************************************************************)
\* The texts given as start and end date: dates around the end of February
\* and of the year, in the program's own format, and a few irregular ones.
DateTexts ==
    { format_date(d) : d \in { MkDate(2024, 2, 27),
                               MkDate(2024, 2, 28), MkDate(2024, 2, 30),
                               MkDate(2024, 3, 1), MkDate(2023, 12, 31),
                               MkDate(2024, 1, 1), MkDate(2100, 12, 31),
                               MkDate(2024, 13, 1), MkDate(1899, 12, 31) } }
    \cup { Dec(2024),
           Dec(2024) \o <<"-">> \o Dec(3) \o <<"-">> \o Dec(1) \o <<"x">> }

\* The texts given as max_commits_per_day.
MaxTexts == { Dec(0), Dec(1), Dec(2), Dec(50), Dec(51), <<"-">> \o Dec(1), <<"x">> }

\* How many iterations the loop of main() makes from cur to end, counted up
\* to fuel + 1.
RECURSIVE LoopLength(_, _, _)
LoopLength(cur, end, fuel) ==
    IF compare_dates(cur, end) > 0 THEN 0
    ELSE IF fuel = 0 THEN 1
    ELSE 1 + LoopLength(increment_date(cur), end, fuel - 1)

\* The runs the model follows walk at most MaxDays days.
ShortRange(ps, pe) ==
    (ps.ret = 1 /\ pe.ret = 1) => LoopLength(ps.date, pe.date, MaxDays) <= MaxDays

WithinMaxDays(v) == ShortRange(parse_date(v[1]), parse_date(v[2]))

Init ==
    /\ pc = "args"
    /\ argc \in {3, 4}
    /\ argv \in IF argc = 4
                THEN { <<s, e, m>> : s \in DateTexts, e \in DateTexts, m \in MaxTexts }
                ELSE { <<s, e>> : s \in DateTexts, e \in DateTexts }
    /\ WithinMaxDays(argv)
    /\ git_dir \in BOOLEAN
    /\ start_date = NoDate /\ end_date = NoDate /\ current_date = NoDate
    /\ max_commits_per_day = 0 /\ total_commits = 0 /\ days_processed = 0
    /\ commits_today = 0 /\ i = 0
    /\ file = <<>> /\ trace = <<>> /\ visited = <<>>
    /\ summary = NoSummary /\ exit_status = -1
    /\ input = <<>> /\ output = <<>> /\ steps = 0

\* An entry of the history: a collaborator call (system()) with its outcome,
\* or a record appended to the activity file.
Event(op, ok, date, n) == [op |-> op, ok |-> ok, date |-> date, n |-> n]

\* return code from main()
Exit(code) == pc' = "done" /\ exit_status' = code

\* A plausible slip: the date range is never validated.
check_args_no_range(ps, pe, m) ==
    IF ps.ret = 0
    THEN [ok |-> FALSE, start |-> NoDate, end |-> NoDate, max |-> 0]
    ELSE IF pe.ret = 0
    THEN [ok |-> FALSE, start |-> ps.date, end |-> NoDate, max |-> 0]
    ELSE IF m < 1 \/ m > MaxCommitsLimit
    THEN [ok |-> FALSE, start |-> ps.date, end |-> pe.date, max |-> m]
    ELSE [ok |-> TRUE, start |-> ps.date, end |-> pe.date, max |-> m]

\* main()'s checks of its arguments once argc is known to be 4, in their
\* order: ps and pe are the results of the two parse_date calls, m that of
\* atoi.  What each local holds when the checks end, and whether all passed.
check_args(ps, pe, m) ==
    IF ps.ret = 0
    THEN [ok |-> FALSE, start |-> NoDate, end |-> NoDate, max |-> 0]
    ELSE IF pe.ret = 0
    THEN [ok |-> FALSE, start |-> ps.date, end |-> NoDate, max |-> 0]
    ELSE IF m < 1 \/ m > MaxCommitsLimit
    THEN [ok |-> FALSE, start |-> ps.date, end |-> pe.date, max |-> m]
    ELSE IF compare_dates(ps.date, pe.date) > 0
    THEN [ok |-> FALSE, start |-> ps.date, end |-> pe.date, max |-> m]
    ELSE [ok |-> TRUE, start |-> ps.date, end |-> pe.date, max |-> m]

validate_args(c, v) ==
    IF c # 4
    THEN [ok |-> FALSE, start |-> NoDate, end |-> NoDate, max |-> 0]
    ELSE check_args(parse_date(v[1]), parse_date(v[2]), atoi(v[3]))

\* main(): the argument checks; any failure returns 1.
CheckArgs ==
    /\ pc = "args"
    /\ \E r \in {validate_args(argc, argv)} :
          /\ start_date' = r.start
          /\ end_date' = r.end
          /\ max_commits_per_day' = r.max
          /\ IF r.ok THEN pc' = "init_repo" /\ UNCHANGED exit_status
                     ELSE Exit(1)
    /\ UNCHANGED <<argc, argv, git_dir, current_date, total_commits, days_processed,
                   commits_today, i, file, trace, visited, summary, fnVars>>

\* main(): srand, init_git_repo(), the banner, current_date = start_date.
InitRepo ==
    /\ pc = "init_repo"
    /\ \/ /\ git_dir
          /\ pc' = "loop" /\ current_date' = start_date
          /\ UNCHANGED <<git_dir, trace, exit_status>>
       \/ /\ ~git_dir
          /\ trace' = Append(trace, Event("init", FALSE, <<>>, 0))
          /\ Exit(1)
          /\ UNCHANGED <<git_dir, current_date>>
       \/ /\ ~git_dir
          /\ \E okName \in BOOLEAN, okEmail \in BOOLEAN :
                trace' = trace \o << Event("init", TRUE, <<>>, 0),
                                     Event("config_name", okName, <<>>, 0),
                                     Event("config_email", okEmail, <<>>, 0) >>
          /\ git_dir' = TRUE
          /\ pc' = "loop" /\ current_date' = start_date
          /\ UNCHANGED exit_status
    /\ UNCHANGED <<argc, argv, start_date, end_date, max_commits_per_day, total_commits,
                   days_processed, commits_today, i, file, visited, summary, fnVars>>

\* A plausible slip: a day that drew no commit still enters the commit loop.
LoopTest_EntersEmptyDay ==
    /\ pc = "loop"
    /\ \/ /\ compare_dates(current_date, end_date) <= 0
          /\ \E r \in 0..MaxRand :
                /\ commits_today' = r % (max_commits_per_day + 1)
                /\ visited' = Append(visited, [date |-> current_date,
                                               count |-> commits_today'])
                /\ i' = 1 /\ pc' = "record"
       \/ /\ compare_dates(current_date, end_date) > 0
          /\ pc' = "summary"
          /\ UNCHANGED <<commits_today, visited, i>>
    /\ UNCHANGED <<argc, argv, git_dir, start_date, end_date, current_date,
                   max_commits_per_day, total_commits, days_processed, file, trace,
                   summary, exit_status, fnVars>>

\* main(): the while condition and the draw of the day's number of commits.
LoopTest ==
    /\ pc = "loop"
    /\ \/ /\ compare_dates(current_date, end_date) <= 0
          /\ \E r \in 0..MaxRand :
                /\ commits_today' = r % (max_commits_per_day + 1)
                /\ visited' = Append(visited, [date |-> current_date,
                                               count |-> commits_today'])
                /\ IF commits_today' > 0
                   THEN i' = 1 /\ pc' = "record"
                   ELSE i' = i /\ pc' = "end_day"
       \/ /\ compare_dates(current_date, end_date) > 0
          /\ pc' = "summary"
          /\ UNCHANGED <<commits_today, visited, i>>
    /\ UNCHANGED <<argc, argv, git_dir, start_date, end_date, current_date,
                   max_commits_per_day, total_commits, days_processed, file, trace,
                   summary, exit_status, fnVars>>

\* A plausible slip: the activity file is opened with "w", not "a".
RecordActivity_Truncates ==
    /\ pc = "record"
    /\ \/ Exit(1) /\ UNCHANGED <<file, trace>>
       \/ /\ file' = << [date |-> format_date(current_date), number |-> i] >>
          /\ trace' = Append(trace, Event("record", TRUE, format_date(current_date), i))
          /\ pc' = "add"
          /\ UNCHANGED exit_status
    /\ UNCHANGED <<argc, argv, git_dir, start_date, end_date, current_date,
                   max_commits_per_day, total_commits, days_processed, commits_today,
                   i, visited, summary, fnVars>>

\* create_commit(): open the activity file for appending (a failure ends the
\* run) and write the record of this commit.
RecordActivity ==
    /\ pc = "record"
    /\ \/ Exit(1) /\ UNCHANGED <<file, trace>>
       \/ /\ file' = Append(file, [date |-> format_date(current_date), number |-> i])
          /\ trace' = Append(trace, Event("record", TRUE, format_date(current_date), i))
          /\ pc' = "add"
          /\ UNCHANGED exit_status
    /\ UNCHANGED <<argc, argv, git_dir, start_date, end_date, current_date,
                   max_commits_per_day, total_commits, days_processed, commits_today,
                   i, visited, summary, fnVars>>

\* A plausible slip: the result of "git add" is not looked at.
StageFile_Unchecked ==
    /\ pc = "add"
    /\ \E ok \in BOOLEAN : trace' = Append(trace, Event("add", ok, <<>>, i))
    /\ pc' = "commit"
    /\ UNCHANGED <<argc, argv, git_dir, start_date, end_date, current_date,
                   max_commits_per_day, total_commits, days_processed, commits_today,
                   i, file, visited, summary, exit_status, fnVars>>

\* create_commit(): system("git add cyclops_activity.txt").
StageFile ==
    /\ pc = "add"
    /\ \/ /\ trace' = Append(trace, Event("add", FALSE, <<>>, i))
          /\ Exit(1)
       \/ /\ trace' = Append(trace, Event("add", TRUE, <<>>, i))
          /\ pc' = "commit"
          /\ UNCHANGED exit_status
    /\ UNCHANGED <<argc, argv, git_dir, start_date, end_date, current_date,
                   max_commits_per_day, total_commits, days_processed, commits_today,
                   i, file, visited, summary, fnVars>>

\* create_commit(): system("GIT_COMMITTER_DATE=... git commit --date=..."),
\* then main()'s for loop: the next commit of the day, or the day's total.
CreateCommit ==
    /\ pc = "commit"
    /\ \/ /\ trace' = Append(trace, Event("commit", FALSE, format_date(current_date), i))
          /\ Exit(1)
          /\ UNCHANGED <<i, total_commits>>
       \/ /\ trace' = Append(trace, Event("commit", TRUE, format_date(current_date), i))
          /\ i' = i + 1
          /\ IF i' <= commits_today
             THEN pc' = "record" /\ UNCHANGED total_commits
             ELSE pc' = "end_day" /\ total_commits' = total_commits + commits_today
          /\ UNCHANGED exit_status
    /\ UNCHANGED <<argc, argv, git_dir, start_date, end_date, current_date,
                   max_commits_per_day, days_processed, commits_today,
                   file, visited, summary, fnVars>>

\* main(): days_processed++, increment_date(&current_date), usleep.
EndDay ==
    /\ pc = "end_day"
    /\ days_processed' = days_processed + 1
    /\ current_date' = increment_date(current_date)
    /\ pc' = "loop"
    /\ UNCHANGED <<argc, argv, git_dir, start_date, end_date, max_commits_per_day,
                   total_commits, commits_today, i, file, trace, visited, summary,
                   exit_status, fnVars>>

\* main(): the summary, and return 0.
PrintSummary ==
    /\ pc = "summary"
    /\ summary' = [printed |-> TRUE,
                   days_processed |-> days_processed,
                   total_commits |-> total_commits,
                   average_printed |-> total_commits > 0,
                   divisor |-> IF total_commits > 0
                               THEN days_processed - (days_processed - total_commits)
                               ELSE 0]
    /\ Exit(0)
    /\ UNCHANGED <<argc, argv, git_dir, start_date, end_date, current_date,
                   max_commits_per_day, total_commits, days_processed, commits_today,
                   i, file, trace, visited, fnVars>>

Next ==
    \/ CheckArgs
    \/ InitRepo
    \/ LoopTest
    \/ RecordActivity
    \/ StageFile
    \/ CreateCommit
    \/ EndDay
    \/ PrintSummary

Spec == Init /\ [][Next]_vars

(***************************************************************************)
(* Claims about the run of main().                                         *)
(***************************************************************************)
\* The Gregorian calendar, stated on its own.
GregorianLeap(y) == (y % 4 = 0 /\ y % 100 # 0) \/ y % 400 = 0

MonthLength(m, y) ==
    IF m \in {4, 6, 9, 11} THEN 30
    ELSE IF m = 2 THEN (IF GregorianLeap(y) THEN 29 ELSE 28)
    ELSE 31

IsCalendarDate(d) ==
    d.month \in 1..12 /\ d.day >= 1 /\ d.day <= MonthLength(d.month, d.year)

LexLess(a, b) ==
    \/ a.year < b.year
    \/ a.year = b.year /\ a.month < b.month
    \/ a.year = b.year /\ a.month = b.month /\ a.day < b.day

LexLeq(a, b) == a = b \/ LexLess(a, b)

\* The calendar dates of [s, e].
CalendarDatesIn(s, e) ==
    { d \in [year : s.year..e.year, month : 1..12, day : 1..31] :
        IsCalendarDate(d) /\ LexLeq(s, d) /\ LexLeq(d, e) }

IsCommitCreated(ev) == ev.op = "commit" /\ ev.ok
\* The commits created so far, in order.
CommitsCreated == SelectSeq(trace, IsCommitCreated)

IsLoopEvent(ev) == ev.op \in {"record", "add", "commit"}
\* What the loop of main() has done so far, in order.
LoopTrace == SelectSeq(trace, IsLoopEvent)

RunSucceeded == pc = "done" /\ exit_status = 0

\* C1: a run in which every call succeeds reaches the summary having visited
\* each calendar date of [start, end] exactly once in increasing order;
\* days_processed is then the number of calendar days of [start, end],
\* total_commits the number of commits created, and
\* 0 <= total_commits <= days_processed * max_per_day.
C1_SummaryCountsCalendarDays ==
    RunSucceeded =>
        /\ { visited[k].date : k \in DOMAIN visited } = CalendarDatesIn(start_date, end_date)
        /\ \A k \in 1..(Len(visited) - 1) : LexLess(visited[k].date, visited[k + 1].date)
        /\ summary.days_processed = Cardinality(CalendarDatesIn(start_date, end_date))
        /\ summary.total_commits = Len(CommitsCreated)
        /\ summary.total_commits >= 0
        /\ summary.total_commits <= summary.days_processed * max_commits_per_day

\* C2 (as claimed): every failed collaborator call - repository
\* initialization, setting the committer identity, staging, committing - is
\* the last thing the run does: it ends with exit status 1, no further call
\* is made, no further record is appended, no summary is printed.
C2_EveryFailureFatal ==
    \A k \in DOMAIN trace :
        ~trace[k].ok =>
            /\ k = Len(trace)
            /\ pc = "done" /\ exit_status = 1
            /\ ~summary.printed

\* C2 (amended): a failed repository initialization, staging or commit is
\* the last thing the run does: exit status 1, no further call, no further
\* record, no summary.  A failed setting of the committer identity is not:
\* the run goes on into the loop over the dates.
C2_FatalFailures ==
    \A k \in DOMAIN trace :
        ~trace[k].ok =>
            IF trace[k].op \in {"init", "add", "commit"}
            THEN /\ k = Len(trace)
                 /\ pc = "done" /\ exit_status = 1
                 /\ ~summary.printed
            ELSE /\ trace[k].op \in {"config_name", "config_email"}
                 /\ pc \notin {"args", "init_repo"}
                 /\ current_date # NoDate
                 /\ pc = "done" => visited # <<>>

C2_Witness ==
    /\ pc = "done" /\ exit_status = 1
    /\ Len(trace) > 6
    /\ trace[Len(trace)].op = "commit" /\ ~trace[Len(trace)].ok
    /\ trace[1].op = "init"

\* C3 (as claimed): when a run has ended, successfully or not, with N commits
\* created, the activity file holds exactly N records, the k-th carrying the
\* date and the number within the day of the k-th commit created.
C3_RecordsEqualCommits ==
    pc = "done" =>
        /\ Len(file) = Len(CommitsCreated)
        /\ \A k \in DOMAIN file :
              /\ file[k].date = CommitsCreated[k].date
              /\ file[k].number = CommitsCreated[k].n

\* The run was ended by a failed staging or a failed commit.
AbortedAfterRecord ==
    /\ pc = "done" /\ trace # <<>>
    /\ trace[Len(trace)].op \in {"add", "commit"} /\ ~trace[Len(trace)].ok

\* C3 (amended): when a run has ended with N commits created, the activity
\* file holds N records, or N + 1 when the run was ended by a failed staging
\* or commit (the record of the commit that was not created stays); the k-th
\* record, k <= N, carries the date and number of the k-th commit created.
C3_RecordsFollowCommits ==
    pc = "done" =>
        /\ Len(file) = Len(CommitsCreated) + (IF AbortedAfterRecord THEN 1 ELSE 0)
        /\ \A k \in DOMAIN CommitsCreated :
              /\ file[k].date = CommitsCreated[k].date
              /\ file[k].number = CommitsCreated[k].n

C3_Witness ==
    /\ AbortedAfterRecord
    /\ Len(CommitsCreated) = 2
    /\ Len(file) = 3
    /\ file[2].date # file[3].date

\* The arguments are four and the program must reject them.
RejectedArgs ==
    /\ argc = 4
    /\ \/ parse_date(argv[1]).ret = 0
       \/ parse_date(argv[2]).ret = 0
       \/ atoi(argv[3]) < 1
       \/ atoi(argv[3]) > 50
       \/ LexLess(parse_date(argv[2]).date, parse_date(argv[1]).date)

\* C4: a run whose start date is after its end date, or whose max_per_day is
\* outside [1,50], or one of whose dates parse rejects, ends with exit status
\* 1 before any side effect: no repository is initialized, nothing is
\* appended, no collaborator call is made.
C4_RejectedBeforeSideEffects ==
    RejectedArgs =>
        /\ pc \in {"args", "done"}
        /\ pc = "done" => exit_status = 1
        /\ trace = <<>> /\ file = <<>> /\ visited = <<>>
        /\ ~summary.printed

C4_Witness ==
    /\ pc = "done" /\ exit_status = 1 /\ argc = 4 /\ ~git_dir
    /\ start_date = MkDate(2024, 3, 1) /\ end_date = MkDate(2024, 2, 28)
    /\ max_commits_per_day = 2

\* C6: every Date the program holds - the parsed start and end dates, the
\* current date after any number of increments - satisfies
\* 1900 <= year <= 2100, 1 <= month <= 12, 1 <= day <= days_in_month.
C6_DatesAreCalendarDates ==
    \A d \in {start_date, end_date, current_date} \ {NoDate} :
        /\ d.year >= 1900 /\ d.year <= 2100
        /\ d.month >= 1 /\ d.month <= 12
        /\ d.day >= 1 /\ d.day <= days_in_month(d.month, d.year)

\* The events of a day with n commits: record, stage, commit, n times.
RECURSIVE DayEvents(_, _)
DayEvents(d, n) ==
    IF n = 0 THEN <<>>
    ELSE DayEvents(d, n - 1) \o << Event("record", TRUE, format_date(d), n),
                                    Event("add", TRUE, <<>>, n),
                                    Event("commit", TRUE, format_date(d), n) >>

\* The events of the first k days visited.
RECURSIVE DaysEvents(_)
DaysEvents(k) ==
    IF k = 0 THEN <<>>
    ELSE DaysEvents(k - 1) \o DayEvents(visited[k].date, visited[k].count)

IsPrefix(s, u) == Len(s) <= Len(u) /\ s = SubSeq(u, 1, Len(s))

\* C9: a visited day that drew 0 commits leaves no record and no call; a day
\* that drew n > 0 leaves, absent failure, exactly record(k), stage(k),
\* commit(k) in that order for k = 1..n, stamped with that day's date; and no
\* commit is attempted without its record appended and the file staged.
C9_DayEvents ==
    /\ (\A k \in DOMAIN trace : trace[k].ok) =>
          /\ IsPrefix(LoopTrace, DaysEvents(Len(visited)))
          /\ pc \in {"loop", "end_day", "summary"} \/ RunSucceeded =>
                LoopTrace = DaysEvents(Len(visited))
    /\ \A k \in DOMAIN LoopTrace :
          LoopTrace[k].op = "commit" =>
              /\ k >= 3
              /\ LoopTrace[k - 1] = Event("add", TRUE, <<>>, LoopTrace[k].n)
              /\ LoopTrace[k - 2] =
                    Event("record", TRUE, LoopTrace[k].date, LoopTrace[k].n)

C9_Witness ==
    /\ RunSucceeded
    /\ Len(visited) = 3
    /\ visited[1].count = 2 /\ visited[2].count = 0 /\ visited[3].count = 1
    /\ Len(LoopTrace) = 9

\* C10: when the summary is printed with total_commits > 0, the divisor of
\* "Average commits per active day" is the number of visited days on which
\* at least one commit was created.
C10_DivisorIsActiveDays ==
    (summary.printed /\ summary.average_printed) =>
        summary.divisor = Cardinality({ k \in DOMAIN visited : visited[k].count > 0 })

(***************************************************************************)
(* The pure functions applied on their own.  In these specifications       *)
(* main() does not run: its variables stay as MainIdle leaves them.        *)
(***************************************************************************)
MainIdle ==
    /\ pc = "idle" /\ argc = 0 /\ argv = <<>> /\ git_dir = FALSE
    /\ start_date = NoDate /\ end_date = NoDate /\ current_date = NoDate
    /\ max_commits_per_day = 0 /\ total_commits = 0 /\ days_processed = 0
    /\ commits_today = 0 /\ i = 0 /\ file = <<>> /\ trace = <<>>
    /\ visited = <<>> /\ summary = NoSummary /\ exit_status = -1

\* ---- parse_date on a bounded family of texts ----
\* prefix, year, separator, month, separator, day, suffix
ParseInputs ==
    { p \o y \o s1 \o m \o s2 \o d \o x :
        p \in {<<>>, <<" ">>, <<"+">>, <<"x">>},
        y \in {Dec(1899), Dec(1900), Dec(2024), Dec(2100), Dec(2101)},
        s1 \in {<<"-">>, <<"/">>},
        m \in {Dec(0), Dec(1), ZeroPad(Dec(1), 2), Dec(12), Dec(13)},
        s2 \in {<<"-">>, <<"/">>},
        d \in {Dec(0), Dec(5), ZeroPad(Dec(5), 2), Dec(31), Dec(32)},
        x \in {<<>>, <<"x">>} }

ParseInit ==
    /\ MainIdle
    /\ input \in ParseInputs
    /\ output = [ret |-> -1, date |-> NoDate]
    /\ steps = 0

ApplyParse ==
    /\ steps = 0
    /\ output' = parse_date(input)
    /\ steps' = 1
    /\ UNCHANGED <<input, mainVars>>

ParseNext == ApplyParse
ParseSpec == ParseInit /\ [][ParseNext]_vars

\* ---- increment_date and compare_dates on every date parse_date accepts ----
AcceptedDates ==
    { d \in [year : (YearMin - 1)..(YearMax + 1),
             month : 0..(MonthMax + 1),
             day : 0..(DayMax + 1)] : fields_in_range(d) }

IncInit ==
    /\ MainIdle
    /\ input \in AcceptedDates
    /\ output = [next |-> NoDate, cmp |-> 0]
    /\ steps = 0

ApplyIncrement ==
    /\ steps = 0
    /\ output' = [next |-> increment_date(input),
                  cmp |-> compare_dates(input, increment_date(input))]
    /\ steps' = 1
    /\ UNCHANGED <<input, mainVars>>

IncNext == ApplyIncrement
IncSpec == IncInit /\ [][IncNext]_vars

\* ---- increment_date applied again and again from January 1st of a year ----
YearInit ==
    /\ MainIdle
    /\ input \in YearMin..YearMax
    /\ output = MkDate(input, 1, 1)
    /\ steps = 0

StepIncrement ==
    /\ steps < MaxSteps
    /\ output' = increment_date(output)
    /\ steps' = steps + 1
    /\ UNCHANGED <<input, mainVars>>

YearNext == StepIncrement
YearSpec == YearInit /\ [][YearNext]_vars

(***************************************************************************)
(* Claims about the pure functions.                                        *)
(***************************************************************************)
\* The form YYYY-MM-DD: ten characters, digits but for the two dashes.
MatchesPattern(s) ==
    /\ Len(s) = 10
    /\ \A k \in {1, 2, 3, 4, 6, 7, 9, 10} : IsDigit(s[k])
    /\ s[5] = "-" /\ s[8] = "-"

PatternInRange(s) ==
    /\ MatchesPattern(s)
    /\ DigitsValue(s, 1, 4) \in 1900..2100
    /\ DigitsValue(s, 6, 7) \in 1..12
    /\ DigitsValue(s, 9, 10) \in 1..31

\* C5: parse succeeds exactly on the texts of the form YYYY-MM-DD whose
\* fields satisfy 1900 <= year <= 2100, 1 <= month <= 12, 1 <= day <= 31,
\* and fails on every other text.
C5_ParseExactlyPattern ==
    steps = 1 => (output.ret = 1 <=> PatternInRange(input))

\* C7: from Y-01-01, increment applied 365 times (Y not a leap year) or 366
\* times (Y a leap year: divisible by 4 and not by 100, or divisible by 400)
\* yields (Y+1)-01-01, and no smaller positive number of applications does.
C7_YearLength ==
    LET leap == (input % 4 = 0 /\ input % 100 # 0) \/ input % 400 = 0
        len == IF leap THEN 366 ELSE 365
    IN  /\ steps = len => output = MkDate(input + 1, 1, 1)
        /\ steps < len => output # MkDate(input + 1, 1, 1)

C7_Witness ==
    /\ input = 2000 /\ steps = 366 /\ output = MkDate(2001, 1, 1)

\* C8: for every date d that parse accepts (days 29-31 of shorter months
\* included), compare(d, increment(d)) is "less", and increment(d) follows d
\* in the lexicographic order on (year, month, day).
C8_IncrementAdvances ==
    steps = 1 =>
        /\ output.cmp = -1
        /\ \/ input.year < output.next.year
           \/ input.year = output.next.year /\ input.month < output.next.month
           \/ /\ input.year = output.next.year
              /\ input.month = output.next.month
              /\ input.day < output.next.day

C8_Witness ==
    /\ steps = 1 /\ input = MkDate(2023, 2, 30) /\ output.next = MkDate(2023, 3, 1)

=============================================================================
